---- MODULE Spec2Model ----
(***************************************************************************)
(* A model of FaunaConnection (src/FaunaConnection.js): a wrapper whose    *)
(* methods each build one query expression with the faunadb query builder  *)
(* (this.q) and hand it to this.client.query, returning that promise.      *)
(*                                                                         *)
(* JavaScript values are records tagged by the field t.  The query builder *)
(* and the engine behind client.query are external: a builder call is the  *)
(* expression node it was called to build (its name and its arguments in   *)
(* call order), and the engine settles a request with any response or any  *)
(* error.                                                                  *)
(***************************************************************************)
EXTENDS Integers, Sequences, FiniteSets, TLC

VARIABLES this, heap, call, requests

vars == <<this, heap, call, requests>>

(* ------------------------------------------------------------------ *)
(* Bounds                                                             *)
(* ------------------------------------------------------------------ *)

\* longest array of documents a caller hands to create
MaxDocs == 2

\* the callers that use the one wrapper instance concurrently
Callers == {"a", "b"}

\* the page request objects the callers own
ObjIds == {"o1"}

(* ------------------------------------------------------------------ *)
(* JavaScript values                                                  *)
(* ------------------------------------------------------------------ *)

Undefined == [t |-> "undefined"]
Null == [t |-> "null"]
TypeError == [t |-> "TypeError"]
Str(s) == [t |-> "str", v |-> s]
Num(n) == [t |-> "num", v |-> n]
Obj(fields) == [t |-> "obj", f |-> fields]
Arr(items) == [t |-> "array", items |-> items]
ObjRef(o) == [t |-> "objref", id |-> o]

\* a value in a boolean position (if, &&, ||)
Truthy(v) ==
  CASE v.t \in {"undefined", "null"} -> FALSE
    [] v.t = "num" -> v.v # 0
    [] v.t = "str" -> v.v # ""
    [] OTHER -> TRUE

\* a frozen object (Object.freeze): its properties are read-only
Frozen(obj) == [t |-> "obj", f |-> obj.f, frozen |-> TRUE]

IsFrozen(v) == v.t = "obj" /\ "frozen" \in DOMAIN v

\* a parameter with a default value: the default replaces undefined only
DefaultParam(v, default) == IF v = Undefined THEN default ELSE v

\* v.p: reading a property of undefined or null throws, a property the
\* value does not carry reads as undefined; a throw in evaluating v is the
\* outcome of v.p
GetProp(v, p) ==
  IF v.t \in {"undefined", "null", "TypeError"} THEN TypeError
  ELSE IF v.t = "obj" /\ p \in DOMAIN v.f THEN v.f[p]
  ELSE Undefined

\* a && b: b is evaluated only when a is truthy; a throw in evaluating a is
\* the outcome of a && b
AndAnd(a, b) == IF a = TypeError THEN TypeError ELSE IF Truthy(a) THEN b ELSE a

\* a ?? b: only undefined and null give way to b
OrOrNullish(a, b) == IF a.t \in {"undefined", "null"} THEN b ELSE a

\* a || b
OrOr(a, b) == IF Truthy(a) THEN a ELSE b

IsArray(v) == v.t = "array"

(* ------------------------------------------------------------------ *)
(* Query builder (this.q) expressions                                 *)
(* ------------------------------------------------------------------ *)

E(fn, args) == [t |-> "expr", fn |-> fn, args |-> args]

CreateDatabase(params) == E("CreateDatabase", <<params>>)
CreateKey(params) == E("CreateKey", <<params>>)
CreateCollection(params) == E("CreateCollection", <<params>>)
CreateIndex(params) == E("CreateIndex", <<params>>)
Database(name) == E("Database", <<name>>)
Collection(name) == E("Collection", <<name>>)
Ref(coll, id) == E("Ref", <<coll, id>>)
Var(name) == E("Var", <<name>>)
Lambda(params, body) == E("Lambda", <<params, body>>)
Create(ref, params) == E("Create", <<ref, params>>)
Map(coll, fn) == E("Map", <<coll, fn>>)
Get(ref) == E("Get", <<ref>>)
Index1(name) == E("Index", <<name>>)
Index(name, scope) == E("Index", <<name, scope>>)
Match1(index) == E("Match", <<index>>)
Match(index, term) == E("Match", <<index, term>>)
Paginate(set, params) == E("Paginate", <<set, params>>)
Update(ref, params) == E("Update", <<ref, params>>)
Replace(ref, params) == E("Replace", <<ref, params>>)
Delete(ref) == E("Delete", <<ref>>)

\* the arrow function ref => this.q.Get(ref)
GetEach == [t |-> "arrow", param |-> "ref", body |-> Get([t |-> "param", name |-> "ref"])]

(* ------------------------------------------------------------------ *)
(* The wrapper's methods: the expression each one builds              *)
(* ------------------------------------------------------------------ *)

\* constructor: this.size = 64
DefaultSize == 64

\* constructor: the client bound to the secret, and the default page size
Construct(secret) == [client |-> [t |-> "client", secret |-> secret], size |-> Num(DefaultSize)]

createDBQuery(name) == CreateDatabase(Obj([name |-> name]))

createServerQuery(dbName) ==
  CreateKey(Obj([database |-> Database(dbName), role |-> Str("server")]))

createCollectionQuery(name) == CreateCollection(Obj([name |-> name]))

\* createIndex(name, src, terms=null, values=null)
createIndexQuery(name, src, terms, values) ==
  CreateIndex(Obj([name |-> name, source |-> Collection(src),
                   terms |-> DefaultParam(terms, Null),
                   values |-> DefaultParam(values, Null)]))

\* docs taken as the array, whatever it is
DocumentsUnwrapped(docs) == docs

\* const documents = Array.isArray(docs) ? docs : [docs]
Documents(docs) == IF IsArray(docs) THEN docs ELSE Arr(<<docs>>)

createQuery(collection, docs) ==
  Map(Documents(docs),
      Lambda(Str("doc"),
             Create(Collection(collection), Obj([data |-> Var(Str("doc"))]))))

createWithCustomIDQuery(collection, touples) ==
  Map(touples,
      Lambda(Arr(<<Str("id"), Str("data")>>),
             Create(Ref(Collection(collection), Var(Str("id"))),
                    Obj([data |-> Var(Str("data"))]))))

getQuery(collection, ref) == Get(Ref(Collection(collection), ref))

getMatchQuery(index, value) == Get(Match(Index1(index), value))

\* size without the default
PageSizeNoDefault(self, size) == size

\* size || this.size
PageSize(self, size) == OrOr(size, self.size)

getAllRefsByIndexQuery(self, index, size) ==
  Paginate(Match1(Index1(index)), Obj([size |-> PageSize(self, size)]))

\* options.collection is read before any builder call: on undefined or null
\* the read throws and nothing is built
buildRef(options) ==
  IF GetProp(options, "collection") = TypeError THEN TypeError
  ELSE Ref(Collection(GetProp(options, "collection")), GetProp(options, "ref"))

\* options.p = v; the class body is strict code, where assigning to a
\* property of a frozen object throws
SetProp(obj, p, v) ==
  IF IsFrozen(obj) THEN TypeError
  ELSE Obj([k \in (DOMAIN obj.f) \cup {p} |-> IF k = p THEN v ELSE obj.f[k]])

\* options.before alone, its collection field not looked at
BeforeIsCompositeAnyTruthy(options) == GetProp(options, "before")

\* options.before && options.before.collection
BeforeIsComposite(options) ==
  AndAnd(GetProp(options, "before"), GetProp(GetProp(options, "before"), "collection"))

\* options.after && options.after.collection
AfterIsComposite(options) ==
  AndAnd(GetProp(options, "after"), GetProp(GetProp(options, "after"), "collection"))

\* the options object after the if / else if of getAllDocsByIndex, or the
\* TypeError that a condition or an assignment of it raised
Normalize(options) ==
  IF BeforeIsComposite(options) = TypeError THEN TypeError
  ELSE IF Truthy(BeforeIsComposite(options))
  THEN SetProp(options, "before", buildRef(GetProp(options, "before")))
  ELSE IF AfterIsComposite(options) = TypeError THEN TypeError
  ELSE IF Truthy(AfterIsComposite(options))
  THEN SetProp(options, "after", buildRef(GetProp(options, "after")))
  ELSE options

\* the if / else if of getAllDocsByIndex raises a TypeError
NormalizeThrows(options) == Normalize(options) = TypeError

\* Paginate applied to the mapped match set
getAllDocsByIndexQueryMapInside(self, index, options) ==
  Paginate(Map(Match(Index(index, GetProp(options, "scope")), GetProp(options, "term")),
               GetEach),
           Obj([size |-> PageSize(self, GetProp(options, "size")),
                before |-> GetProp(options, "before"),
                after |-> GetProp(options, "after")]))

\* the expression built from the options object as the if / else if left it
getAllDocsByIndexQuery(self, index, options) ==
  Map(Paginate(Match(Index(index, GetProp(options, "scope")), GetProp(options, "term")),
               Obj([size |-> PageSize(self, GetProp(options, "size")),
                    before |-> GetProp(options, "before"),
                    after |-> GetProp(options, "after")])),
      GetEach)

updateQuery(collection, ref, data) ==
  Update(Ref(Collection(collection), ref), Obj([data |-> data]))

replaceQuery(collection, ref, data) ==
  Replace(Ref(Collection(collection), ref), Obj([data |-> data]))

deleteQuery(collection, ref) == Delete(Ref(Collection(collection), ref))

paginateDBQuery(self, dbName, size) ==
  Paginate(Database(dbName), Obj([size |-> PageSize(self, size)]))

getDatabaseQuery(dbName) == Get(Database(dbName))

(* ------------------------------------------------------------------ *)
(* Inputs the callers draw from                                       *)
(* ------------------------------------------------------------------ *)

Secret == Str("fnADsecret")
DbNames == {Str("blog_posts")}
CollNames == {Str("authors")}
IndexNames == {Str("all_authors"), Str("posts_by_title")}
DocKeys == {<<Str("authors"), Str("123")>>, <<Str("posts"), Str("456")>>}
Docs == {Obj([first_name |-> Str("Jack")]), Obj([first_name |-> Str("Jane")])}
Sizes == {Undefined, Null, Num(0), Num(5)}
Terms == {Undefined, Str("My cat and other marvels")}
Scopes == {Undefined, Database(Str("blog_posts"))}

\* arrays of at most MaxDocs documents
DocArrays == {Arr(s) : s \in UNION {[1..n -> Docs] : n \in 0..MaxDocs}}

\* a cursor in the composite form {collection, ref}
Composite(collection, ref) == Obj([collection |-> collection, ref |-> ref])

\* a cursor the engine returned with a page
Token == [t |-> "token", v |-> "cursor"]

CompositeCursors == {Composite(k[1], k[2]) : k \in DocKeys}

\* what a caller may put in options.before / options.after
CursorInputs ==
  {Undefined, Null, Token, Str("123"), Ref(Collection(Str("authors")), Str("123")),
   Obj([collection |-> Str("authors")])} \cup CompositeCursors

Options(before, after, size, term, scope) ==
  Obj([before |-> before, after |-> after, size |-> size, term |-> term, scope |-> scope])

\* page request objects that differ in their cursors
CursorOptionObjects ==
  {Options(b, a, Undefined, Undefined, Undefined) : b \in CursorInputs, a \in CursorInputs}

\* the page request objects a caller may have built, frozen ones among them
OptionObjects ==
  CursorOptionObjects
  \cup {Frozen(o) : o \in CursorOptionObjects}
  \cup {Options(Undefined, Undefined, s, t, sc) : s \in Sizes, t \in Terms, sc \in Scopes}

\* what the engine may answer
Responses == {[t |-> "response", v |-> "page"]}
Errors == {[t |-> "error", v |-> "NotFound"], [t |-> "error", v |-> "Unauthorized"]}

(* ------------------------------------------------------------------ *)
(* Promises and requests                                              *)
(* ------------------------------------------------------------------ *)

Pending == [s |-> "pending", v |-> Undefined]
Resolved(v) == [s |-> "resolved", v |-> v]
Rejected(e) == [s |-> "rejected", v |-> e]

\* this.client.query(expr): the requests the engine receives
Query(expr) == <<[expr |-> expr, outcome |-> Pending]>>

\* a rejection caught and wrapped before it reaches the caller
ReturnedWrapped(outcome) ==
  IF outcome.s = "rejected"
  THEN [s |-> "rejected", v |-> [t |-> "error", v |-> "FaunaConnectionError"]]
  ELSE outcome

\* return this.client.query(...): what the caller's promise settles with
\* when the engine's promise settles with outcome
Returned(outcome) == outcome

Idle == [st |-> "idle", op |-> "none", args |-> <<>>, supplied |-> Undefined, result |-> Pending]

\* the wrapper as constructed, the callers' page request objects drawn from
\* objects, and no call made yet
InitWith(objects) ==
  /\ this = Construct(Secret)
  /\ heap \in [ObjIds -> objects]
  /\ call = [c \in Callers |-> Idle]
  /\ requests = [c \in Callers |-> <<>>]

\* every method in use, over three page request objects
Init ==
  InitWith({Options(Undefined, Undefined, Undefined, Undefined, Undefined),
            Options(Composite(Str("authors"), Str("123")), Undefined, Num(5),
                    Undefined, Undefined),
            Frozen(Options(Undefined, Composite(Str("posts"), Str("456")), Undefined,
                           Undefined, Undefined))})

\* the paginated methods in use, over every page request object
InitPage == InitWith(OptionObjects)

\* a method called by c builds expr and returns this.client.query(expr)
Issue(c, op, args, supplied, expr) ==
  /\ call[c].st = "idle"
  /\ call' = [call EXCEPT ![c] = [st |-> "awaiting", op |-> op, args |-> args,
                                  supplied |-> supplied, result |-> Pending]]
  /\ requests' = [requests EXCEPT ![c] = Query(expr)]
  /\ this' = this

createDB(c) ==
  \E name \in DbNames :
    /\ Issue(c, "createDB", <<name>>, Undefined, createDBQuery(name))
    /\ heap' = heap

createServer(c) ==
  \E dbName \in DbNames :
    /\ Issue(c, "createServer", <<dbName>>, Undefined, createServerQuery(dbName))
    /\ heap' = heap

createCollection(c) ==
  \E name \in CollNames :
    /\ Issue(c, "createCollection", <<name>>, Undefined, createCollectionQuery(name))
    /\ heap' = heap

\* terms and values are undefined when the caller omits them
createIndex(c) ==
  \E name \in {Str("all_authors")}, src \in CollNames, terms \in {Undefined, Null},
     values \in {Undefined, Arr(<<Obj([field |-> Arr(<<Str("ref")>>)])>>)} :
    /\ Issue(c, "createIndex", <<name, src, terms, values>>, Undefined,
             createIndexQuery(name, src, terms, values))
    /\ heap' = heap

create(c) ==
  \E collection \in CollNames, docs \in Docs \cup DocArrays :
    /\ Issue(c, "create", <<collection, docs>>, Undefined, createQuery(collection, docs))
    /\ heap' = heap

createWithCustomID(c) ==
  \E collection \in CollNames, d \in Docs :
    LET touples == Arr(<<Arr(<<Str("123"), d>>)>>)
    IN /\ Issue(c, "createWithCustomID", <<collection, touples>>, Undefined,
                createWithCustomIDQuery(collection, touples))
       /\ heap' = heap

get(c) ==
  \E k \in DocKeys :
    /\ Issue(c, "get", <<k[1], k[2]>>, Undefined, getQuery(k[1], k[2]))
    /\ heap' = heap

getMatch(c) ==
  \E index \in {Str("posts_by_title")}, value \in Terms \ {Undefined} :
    /\ Issue(c, "getMatch", <<index, value>>, Undefined, getMatchQuery(index, value))
    /\ heap' = heap

getAllRefsByIndex(c) ==
  \E index \in {Str("all_authors")}, size \in Sizes :
    /\ Issue(c, "getAllRefsByIndex", <<index, size>>, Undefined,
             getAllRefsByIndexQuery(this, index, size))
    /\ heap' = heap

\* optArg is undefined (the default {} is used), null, or a reference to an
\* object of the caller's; a TypeError raised before this.client.query is
\* reached leaves the call with no request and no promise
getAllDocsByIndex(c) ==
  \E index \in IndexNames, optArg \in {Undefined, Null} \cup {ObjRef(o) : o \in ObjIds} :
    LET options == IF optArg.t = "objref" THEN heap[optArg.id]
                   ELSE DefaultParam(optArg, Obj(<<>>))
    IN IF NormalizeThrows(options)
       THEN /\ call[c].st = "idle"
            /\ call' = [call EXCEPT ![c] = [st |-> "threw", op |-> "getAllDocsByIndex",
                                            args |-> <<index, optArg>>,
                                            supplied |-> options, result |-> Pending]]
            /\ UNCHANGED <<this, heap, requests>>
       ELSE /\ Issue(c, "getAllDocsByIndex", <<index, optArg>>, options,
                     getAllDocsByIndexQuery(this, index, Normalize(options)))
            /\ heap' = IF optArg.t = "objref"
                       THEN [heap EXCEPT ![optArg.id] = Normalize(options)]
                       ELSE heap

update(c) ==
  \E k \in DocKeys, data \in Docs :
    /\ Issue(c, "update", <<k[1], k[2], data>>, Undefined, updateQuery(k[1], k[2], data))
    /\ heap' = heap

replace(c) ==
  \E k \in DocKeys, data \in Docs :
    /\ Issue(c, "replace", <<k[1], k[2], data>>, Undefined, replaceQuery(k[1], k[2], data))
    /\ heap' = heap

delete(c) ==
  \E k \in DocKeys :
    /\ Issue(c, "delete", <<k[1], k[2]>>, Undefined, deleteQuery(k[1], k[2]))
    /\ heap' = heap

paginateDB(c) ==
  \E dbName \in DbNames, size \in Sizes :
    /\ Issue(c, "paginateDB", <<dbName, size>>, Undefined, paginateDBQuery(this, dbName, size))
    /\ heap' = heap

getDatabase(c) ==
  \E dbName \in DbNames :
    /\ Issue(c, "getDatabase", <<dbName>>, Undefined, getDatabaseQuery(dbName))
    /\ heap' = heap

\* the engine settles request k of c's call with outcome; the promise the
\* method returned is that request's promise
Settle(c, k, outcome) ==
  /\ k \in 1..Len(requests[c])
  /\ requests[c][k].outcome = Pending
  /\ requests' = [requests EXCEPT ![c][k].outcome = outcome]
  /\ call' = IF k = 1
             THEN [call EXCEPT ![c].st = "settled", ![c].result = Returned(outcome)]
             ELSE call
  /\ UNCHANGED <<this, heap>>

EngineResolve(c) ==
  \E k \in 1..Len(requests[c]), v \in Responses : Settle(c, k, Resolved(v))

EngineReject(c) ==
  \E k \in 1..Len(requests[c]), e \in Errors : Settle(c, k, Rejected(e))

\* the caller's .then / .catch has run; the caller is free to call again
Then(c) ==
  /\ call[c].st \in {"settled", "threw"}
  /\ \A k \in 1..Len(requests[c]) : requests[c][k].outcome # Pending
  /\ call' = [call EXCEPT ![c] = Idle]
  /\ requests' = [requests EXCEPT ![c] = <<>>]
  /\ UNCHANGED <<this, heap>>

Next ==
  \E c \in Callers :
    \/ createDB(c)
    \/ createServer(c)
    \/ createCollection(c)
    \/ createIndex(c)
    \/ create(c)
    \/ createWithCustomID(c)
    \/ get(c)
    \/ getMatch(c)
    \/ getAllRefsByIndex(c)
    \/ getAllDocsByIndex(c)
    \/ update(c)
    \/ replace(c)
    \/ delete(c)
    \/ paginateDB(c)
    \/ getDatabase(c)
    \/ EngineResolve(c)
    \/ EngineReject(c)
    \/ Then(c)

Spec == Init /\ [][Next]_vars

NextPage ==
  \E c \in Callers :
    \/ getAllRefsByIndex(c)
    \/ getAllDocsByIndex(c)
    \/ paginateDB(c)
    \/ EngineResolve(c)
    \/ EngineReject(c)
    \/ Then(c)

SpecPage == InitPage /\ [][NextPage]_vars

(* ------------------------------------------------------------------ *)
(* Properties                                                         *)
(* ------------------------------------------------------------------ *)

\* c has a call in progress: issued, and its continuation not yet run
InCall(c, op) == call[c].op = op /\ call[c].st \in {"awaiting", "settled"}

\* the expression c's call handed to this.client.query
Submitted(c) == requests[c][1].expr

\* the object c's getAllDocsByIndex call handed to Paginate
PageParams(c) == Submitted(c).args[1].args[2]

\* the cursor the caller supplied in a slot of the options of c's call
SuppliedCursor(c, slot) ==
  IF call[c].supplied.t = "obj" THEN GetProp(call[c].supplied, slot) ELSE Undefined

IsComposite(v) == v.t = "obj" /\ DOMAIN v.f = {"collection", "ref"}

IsNative(v) == v.t \in {"token", "expr"}

Other(slot) == IF slot = "before" THEN "after" ELSE "before"

\* C1: in a getAllDocsByIndex call where exactly one of before / after is a
\* composite {collection, ref} object, the cursor handed to Paginate in the
\* composite's slot is Ref(Collection(collection), ref) of that same
\* collection and ref, and not the composite object
C1_CompositeBecomesRef ==
  \A c \in Callers : \A slot \in {"before", "after"} :
    ( /\ InCall(c, "getAllDocsByIndex")
      /\ IsComposite(SuppliedCursor(c, slot))
      /\ ~IsComposite(SuppliedCursor(c, Other(slot))) )
    => /\ Len(requests[c]) >= 1
       /\ PageParams(c).f[slot] =
            E("Ref", <<E("Collection", <<SuppliedCursor(c, slot).f.collection>>),
                       SuppliedCursor(c, slot).f.ref>>)

\* C2: in a getAllDocsByIndex call that supplies both before and after,
\* every one of the two that is a composite {collection, ref} object reaches
\* Paginate as Ref(Collection(collection), ref), and the call raises no error
C2_BothNormalized ==
  \A c \in Callers :
    ( /\ call[c].op = "getAllDocsByIndex"
      /\ SuppliedCursor(c, "before") # Undefined
      /\ SuppliedCursor(c, "after") # Undefined )
    => /\ call[c].st # "threw"
       /\ InCall(c, "getAllDocsByIndex") =>
            \A slot \in {"before", "after"} :
              IsComposite(SuppliedCursor(c, slot)) =>
                /\ ~IsComposite(PageParams(c).f[slot])
                /\ PageParams(c).f[slot] =
                     Ref(Collection(SuppliedCursor(c, slot).f.collection),
                         SuppliedCursor(c, slot).f.ref)

\* C3: in a getAllDocsByIndex call a before or after cursor that is absent
\* or in native form (a reference built by Ref, among them the output of an
\* earlier call's normalization, or a token of the engine's) reaches Paginate
\* unchanged
C3_NativeUnchanged ==
  \A c \in Callers : \A slot \in {"before", "after"} :
    ( /\ InCall(c, "getAllDocsByIndex")
      /\ \/ SuppliedCursor(c, slot) = Undefined
         \/ IsNative(SuppliedCursor(c, slot)) )
    => /\ Len(requests[c]) >= 1
       /\ PageParams(c).f[slot] = SuppliedCursor(c, slot)

\* the cursor Ref(Collection("posts"), "456") is no caller's input: it is in
\* the options object only as the output of an earlier call's normalization
C3_Witness ==
  \E c \in Callers :
    /\ InCall(c, "getAllDocsByIndex")
    /\ Ref(Collection(Str("posts")), Str("456")) \notin CursorInputs
    /\ SuppliedCursor(c, "before") = Ref(Collection(Str("posts")), Str("456"))
    /\ SuppliedCursor(c, "after") = Token
    /\ PageParams(c).f.before = SuppliedCursor(c, "before")
    /\ PageParams(c).f.after = Token

\* the size argument of c's call
SuppliedSize(c) ==
  IF call[c].op = "getAllDocsByIndex"
  THEN (IF call[c].supplied.t = "obj" THEN GetProp(call[c].supplied, "size")
        ELSE Undefined)
  ELSE call[c].args[2]

\* the object c's call handed to Paginate
PaginateParams(c) ==
  IF call[c].op = "getAllDocsByIndex" THEN PageParams(c) ELSE Submitted(c).args[2]

PageOps == {"getAllDocsByIndex", "getAllRefsByIndex", "paginateDB"}

\* C4: a getAllDocsByIndex, getAllRefsByIndex or paginateDB call that omits
\* size hands Paginate the size 64, the default set at construction
C4_DefaultSize ==
  \A c \in Callers : \A op \in PageOps :
    (InCall(c, op) /\ SuppliedSize(c) = Undefined)
    => /\ Len(requests[c]) >= 1
       /\ Submitted(c).fn \in {"Paginate", "Map"}
       /\ PaginateParams(c).f.size = Num(64)
       /\ PaginateParams(c).f.size = this.size

C4_Witness ==
  \E c1, c2 \in Callers :
    /\ InCall(c1, "paginateDB") /\ SuppliedSize(c1) = Undefined
    /\ PaginateParams(c1).f.size = Num(64)
    /\ InCall(c2, "getAllDocsByIndex") /\ SuppliedSize(c2) = Undefined
    /\ call[c2].args[2].t = "objref"
    /\ PaginateParams(c2).f.size = Num(64)

\* C5: create(collection, d) with a single document d submits the query
\* create(collection, [d]) submits, and create with an array maps one Create
\* over the elements of that array, in order
C5_SingleIsOneElementArray ==
  \A c \in Callers :
    InCall(c, "create")
    => /\ Len(requests[c]) >= 1
       /\ ~IsArray(call[c].args[2]) =>
            /\ Submitted(c) = createQuery(call[c].args[1], Arr(<<call[c].args[2]>>))
            /\ Submitted(c).args[1] = [t |-> "array", items |-> <<call[c].args[2]>>]
       /\ IsArray(call[c].args[2]) => Submitted(c).args[1] = call[c].args[2]
       /\ Submitted(c).fn = "Map"
       /\ Submitted(c).args[2] =
            E("Lambda", <<Str("doc"),
                          E("Create", <<E("Collection", <<call[c].args[1]>>),
                                        Obj([data |-> E("Var", <<Str("doc")>>)])>>)>>)

C5_Witness ==
  \E c1, c2 \in Callers :
    /\ InCall(c1, "create") /\ InCall(c2, "create")
    /\ ~IsArray(call[c1].args[2])
    /\ call[c2].args[2] = Arr(<<call[c1].args[2]>>)
    /\ call[c1].args[1] = call[c2].args[1]
    /\ Submitted(c1) = Submitted(c2)

C5_WitnessMany ==
  \E c \in Callers :
    /\ InCall(c, "create")
    /\ IsArray(call[c].args[2])
    /\ Len(call[c].args[2].items) = 2
    /\ call[c].args[2].items[1] # call[c].args[2].items[2]
    /\ Submitted(c).args[1] = call[c].args[2]

\* C6: a getAllDocsByIndex call given only an index name submits
\* Map(Paginate(Match(Index(name)), size 64), ref => Get(ref)), with the
\* scope, the term and both cursors undefined
C6_IndexOnlyExpression ==
  \A c \in Callers :
    (InCall(c, "getAllDocsByIndex") /\ call[c].args[2] = Undefined)
    => /\ Len(requests[c]) >= 1
       /\ Submitted(c) =
            E("Map",
              <<E("Paginate",
                  <<E("Match", <<E("Index", <<call[c].args[1], Undefined>>), Undefined>>),
                    Obj([size |-> Num(64), before |-> Undefined, after |-> Undefined])>>),
                [t |-> "arrow", param |-> "ref",
                 body |-> E("Get", <<[t |-> "param", name |-> "ref"]>>)]>>)

C6_Witness ==
  \E c \in Callers :
    /\ InCall(c, "getAllDocsByIndex")
    /\ call[c].args = <<Str("all_authors"), Undefined>>
    /\ Submitted(c).fn = "Map"
    /\ Submitted(c).args[1].fn = "Paginate"
    /\ Submitted(c).args[1].args[1].fn = "Match"
    /\ Submitted(c).args[1].args[1].args[1] = Index(Str("all_authors"), Undefined)

Ops ==
  {"createDB", "createServer", "createCollection", "createIndex", "create",
   "createWithCustomID", "get", "getMatch", "getAllRefsByIndex", "getAllDocsByIndex",
   "update", "replace", "delete", "paginateDB", "getDatabase"}

\* C7: whatever the method, the promise handed to the caller is settled as
\* the engine's query promise is: resolved with the engine's response or
\* rejected with the engine's reason, the value unchanged, and pending
\* while the engine's is
C7_SettlesAsEngine ==
  \A c \in Callers : \A op \in Ops :
    InCall(c, op)
    => /\ Len(requests[c]) >= 1
       /\ call[c].result = requests[c][1].outcome
       /\ call[c].st = "settled" =>
            \/ call[c].result.s = "resolved" /\ call[c].result.v \in Responses
            \/ call[c].result.s = "rejected" /\ call[c].result.v \in Errors

C7_Witness ==
  \E c1, c2 \in Callers :
    /\ InCall(c1, "replace") /\ InCall(c2, "getAllDocsByIndex")
    /\ requests[c1][1].outcome = Rejected([t |-> "error", v |-> "Unauthorized"])
    /\ call[c1].result = Rejected([t |-> "error", v |-> "Unauthorized"])
    /\ requests[c2][1].outcome = Resolved([t |-> "response", v |-> "page"])
    /\ call[c2].result = Resolved([t |-> "response", v |-> "page"])

\* C8: a call of any method has issued exactly one request to the engine,
\* never none and never more, also after that request was rejected, and the
\* caller's promise is pending exactly while that request is; a caller with
\* no call has no request
C8_OneRequestPerCall ==
  \A c \in Callers :
    /\ call[c].st = "idle" => Len(requests[c]) = 0
    /\ call[c].st # "idle"
       => /\ call[c].op \in Ops
          /\ Len(requests[c]) = 1
          /\ call[c].st = "awaiting" <=> requests[c][1].outcome = Pending
          /\ call[c].result = Pending <=> requests[c][1].outcome = Pending

\* C9: no getAllDocsByIndex call raises an error of its own, whatever the
\* options (absent, empty, cursors of unexpected shapes): the call reaches
\* the engine, and a rejection the caller sees carries an error of the
\* engine's
C9_NoLocalError ==
  \A c \in Callers :
    call[c].op = "getAllDocsByIndex"
    => /\ call[c].st # "threw"
       /\ Len(requests[c]) >= 1
       /\ call[c].result.s = "rejected" =>
            /\ requests[c][1].outcome = call[c].result
            /\ call[c].result.v \in Errors

\* C10: getAllDocsByIndex leaves the wrapper's client and default page size
\* as constructed, and leaves the caller's page request object with the
\* values it had when the call was made
C10_NoSideEffect ==
  /\ this = Construct(Secret)
  /\ \A c \in Callers :
       (call[c].op = "getAllDocsByIndex" /\ call[c].args[2].t = "objref")
       => heap[call[c].args[2].id] = call[c].supplied

\* C11: calls made concurrently on the one wrapper are independent: two
\* calls in progress that were given the same method and the same arguments
\* have submitted the same expression, whatever was issued or settled in
\* between, and each caller's promise holds the outcome of its own request
C11_CallsIndependent ==
  \A c \in Callers :
    /\ \A op \in Ops : InCall(c, op) =>
         /\ Len(requests[c]) >= 1
         /\ call[c].result = requests[c][1].outcome
    /\ \A d \in Callers :
         ( /\ call[c].st \in {"awaiting", "settled"}
           /\ call[d].st \in {"awaiting", "settled"}
           /\ call[c].op = call[d].op
           /\ call[c].args = call[d].args )
         => Submitted(c) = Submitted(d)

\* the slots of c's getAllDocsByIndex call whose cursor reached Paginate
\* other than as the caller supplied it
NormalizedSlots(c) ==
  {slot \in {"before", "after"} : PageParams(c).f[slot] # SuppliedCursor(c, slot)}

\* C12: in every getAllDocsByIndex call at most one of before / after is
\* normalized, and every composite {collection, ref} cursor supplied reaches
\* Paginate as Ref(Collection(collection), ref), so that no composite object
\* is submitted to the engine
C12_AtMostOneAndNoComposite ==
  \A c \in Callers :
    InCall(c, "getAllDocsByIndex")
    => /\ Len(requests[c]) >= 1
       /\ Cardinality(NormalizedSlots(c)) <= 1
       /\ \A slot \in {"before", "after"} :
            /\ ~IsComposite(PageParams(c).f[slot])
            /\ IsComposite(SuppliedCursor(c, slot)) =>
                 PageParams(c).f[slot] =
                   Ref(Collection(SuppliedCursor(c, slot).f.collection),
                       SuppliedCursor(c, slot).f.ref)

\* C13: getAllDocsByIndex, getAllRefsByIndex and paginateDB hand Paginate the
\* caller's size as it is when it is a number other than 0, and the default
\* 64 when it is 0, null or undefined
C13_SizeForwardedWhenTruthy ==
  \A c \in Callers : \A op \in PageOps :
    InCall(c, op)
    => /\ Len(requests[c]) >= 1
       /\ (SuppliedSize(c).t = "num" /\ SuppliedSize(c).v # 0)
            => PaginateParams(c).f.size = SuppliedSize(c)
       /\ (SuppliedSize(c) \in {Num(0), Null, Undefined})
            => PaginateParams(c).f.size = Num(64)
       /\ DOMAIN PaginateParams(c).f =
            (IF op = "getAllDocsByIndex" THEN {"size", "before", "after"} ELSE {"size"})

C13_Witness ==
  \E c1, c2 \in Callers :
    /\ InCall(c1, "getAllDocsByIndex") /\ call[c1].args[2].t = "objref"
    /\ SuppliedSize(c1) = Num(0)
    /\ PaginateParams(c1).f.size = Num(64)
    /\ InCall(c2, "getAllRefsByIndex")
    /\ SuppliedSize(c2) = Num(5)
    /\ PaginateParams(c2).f.size = Num(5)

C13_WitnessNull ==
  \E c1, c2 \in Callers :
    /\ InCall(c1, "paginateDB") /\ SuppliedSize(c1) = Null
    /\ PaginateParams(c1).f.size = Num(64)
    /\ InCall(c2, "paginateDB") /\ SuppliedSize(c2) = Num(0)
    /\ PaginateParams(c2).f.size = Num(64)

====
